---- MODULE Spec2Model ----
(***************************************************************************)
(* Recursive least squares notebook (course_2/Week 1/C2M1L2.ipynb).        *)
(*                                                                         *)
(* The notebook's code cells are modelled as one sequential program, run   *)
(* top to bottom; pc names the next sub-expression or statement that the   *)
(* interpreter evaluates.  Floating point numbers are modelled by exact    *)
(* rationals <<numerator, denominator>>, numpy arrays by a shape and the   *)
(* row-major sequence of their elements.                                   *)
(***************************************************************************)
EXTENDS Integers, Sequences, FiniteSets, TLC

(***************************************************************************)
(* Exact rational arithmetic: <<n, d>> with d > 0 and gcd(n, d) = 1.       *)
(***************************************************************************)
Abs(n) == IF n < 0 THEN -n ELSE n

RECURSIVE GCD(_, _)
GCD(a, b) == IF b = 0 THEN a ELSE GCD(b, a % b)

Q(n, d) ==
    LET s == IF d < 0 THEN -1 ELSE 1
        g == GCD(Abs(n), Abs(d))
    IN  <<(s * n) \div g, (s * d) \div g>>

Zero == Q(0, 1)
One == Q(1, 1)

QAdd(a, b) ==
    LET g == GCD(a[2], b[2])
    IN  Q(a[1] * (b[2] \div g) + b[1] * (a[2] \div g), (a[2] \div g) * b[2])

QNeg(a) == <<-a[1], a[2]>>

QSub(a, b) == QAdd(a, QNeg(b))

QMul(a, b) ==
    LET g1 == GCD(Abs(a[1]), b[2])
        g2 == GCD(Abs(b[1]), a[2])
    IN  Q((a[1] \div g1) * (b[1] \div g2), (a[2] \div g2) * (b[2] \div g1))

QInv(a) == Q(a[2], a[1])

QLe(a, b) == a[1] * b[2] <= b[1] * a[2]

QLt(a, b) == a[1] * b[2] < b[1] * a[2]

RECURSIVE SumTo(_, _)
SumTo(f, n) == IF n = 0 THEN Zero ELSE QAdd(SumTo(f, n - 1), f[n])

RECURSIVE Prod(_)
Prod(s) == IF s = <<>> THEN 1 ELSE Head(s) * Prod(Tail(s))

(***************************************************************************)
(* numpy arrays: [shape, a] with a the elements in row-major order.        *)
(* Indices are 0-based as in the code.                                     *)
(***************************************************************************)
Arr(shape, a) == [shape |-> shape, a |-> a]

Unbound == Arr(<<0>>, <<>>)

Invalid == Arr(<<0, 0>>, <<>>)

ndim(A) == Len(A.shape)

At1(A, i) == A.a[i + 1]

At2(A, i, j) == A.a[i * A.shape[2] + j + 1]

Zeros(shape) == Arr(shape, [idx \in 1..Prod(shape) |-> Zero])

Ones(shape) == Arr(shape, [idx \in 1..Prod(shape) |-> One])

Eye(n, m) ==
    Arr(<<n, m>>, [idx \in 1..(n * m) |->
                     IF (idx - 1) \div m = (idx - 1) % m THEN One ELSE Zero])

\* A.T of a 2-D array; a 1-D array is its own transpose.
T(A) ==
    IF ndim(A) = 2
    THEN LET r == A.shape[1]
             c == A.shape[2]
         IN  Arr(<<c, r>>, [idx \in 1..(r * c) |->
                              At2(A, (idx - 1) % r, (idx - 1) \div r)])
    ELSE A

\* np.dot for the operand ranks the notebook uses: (2-D, 2-D) and (2-D, 1-D).
Dot(A, B) ==
    IF ndim(A) = 2 /\ ndim(B) = 2 /\ A.shape[2] = B.shape[1]
    THEN LET n == A.shape[2]
             c == B.shape[2]
         IN  Arr(<<A.shape[1], c>>,
                 [idx \in 1..(A.shape[1] * c) |->
                    SumTo([m \in 1..n |->
                             QMul(At2(A, (idx - 1) \div c, m - 1),
                                  At2(B, m - 1, (idx - 1) % c))], n)])
    ELSE IF ndim(A) = 2 /\ ndim(B) = 1 /\ A.shape[2] = B.shape[1]
    THEN LET n == A.shape[2]
         IN  Arr(<<A.shape[1]>>,
                 [i \in 1..A.shape[1] |->
                    SumTo([m \in 1..n |->
                             QMul(At2(A, i - 1, m - 1), At1(B, m - 1))], n)])
    ELSE Invalid

\* Elementwise + and - of two arrays of the same shape.
Add(A, B) ==
    IF A.shape = B.shape
    THEN Arr(A.shape, [idx \in 1..Len(A.a) |-> QAdd(A.a[idx], B.a[idx])])
    ELSE Invalid

Sub(A, B) ==
    IF A.shape = B.shape
    THEN Arr(A.shape, [idx \in 1..Len(A.a) |-> QSub(A.a[idx], B.a[idx])])
    ELSE Invalid

Det2(A) == QSub(QMul(At2(A, 0, 0), At2(A, 1, 1)), QMul(At2(A, 0, 1), At2(A, 1, 0)))

\* numpy.linalg.inv raises LinAlgError on a singular matrix.
Singular(A) ==
    IF A.shape = <<1, 1>> THEN At2(A, 0, 0) = Zero
    ELSE IF A.shape = <<2, 2>> THEN Det2(A) = Zero
    ELSE TRUE

Inv(A) ==
    IF A.shape = <<1, 1>>
    THEN Arr(<<1, 1>>, <<QInv(At2(A, 0, 0))>>)
    ELSE LET di == QInv(Det2(A))
         IN  Arr(<<2, 2>>, << QMul(At2(A, 1, 1), di), QMul(QNeg(At2(A, 0, 1)), di),
                              QMul(QNeg(At2(A, 1, 0)), di), QMul(At2(A, 0, 0), di) >>)

\* A[i]: the i-th slab along the first axis.
Get(A, i) ==
    LET sz == Prod(Tail(A.shape))
    IN  Arr(Tail(A.shape), SubSeq(A.a, i * sz + 1, (i + 1) * sz))

\* A[i] = B for B of the shape of A[i].
Set(A, i, B) ==
    LET sz == Prod(Tail(A.shape))
    IN  IF B.shape = Tail(A.shape)
        THEN Arr(A.shape, [idx \in 1..Len(A.a) |->
                             IF (idx - 1) \div sz = i
                             THEN B.a[((idx - 1) % sz) + 1]
                             ELSE A.a[idx]])
        ELSE Invalid

\* H[:, 0] = v for a 1-D v of length H.shape[0].
SetCol0(A, v) ==
    Arr(A.shape, [idx \in 1..Len(A.a) |->
                    IF (idx - 1) % A.shape[2] = 0
                    THEN At1(v, (idx - 1) \div A.shape[2])
                    ELSE A.a[idx]])

\* A.ravel(): the elements as a 1-D array.
Ravel(A) == Arr(<<Len(A.a)>>, A.a)

Trace(A) == QAdd(At2(A, 0, 0), At2(A, 1, 1))


(***************************************************************************)
(* Literals of the notebook.                                               *)
(***************************************************************************)
\* I = np.array([[0.2, 0.3, 0.4, 0.5, 0.6]]).T
IData == Arr(<<1, 5>>, <<Q(2, 10), Q(3, 10), Q(4, 10), Q(5, 10), Q(6, 10)>>)

\* V = np.array([[1.23, 1.38, 2.06, 2.47, 3.17]]).T
VData == Arr(<<1, 5>>, <<Q(123, 100), Q(138, 100), Q(206, 100), Q(247, 100), Q(317, 100)>>)

\* x_k = np.array([2.0, 1.0])
X0 == Arr(<<2>>, <<Q(2, 1), Q(1, 1)>>)

\* P_k = np.array([[2, 4], [1, 2]])
P0 == Arr(<<2, 2>>, <<Q(2, 1), Q(4, 1), Q(1, 1), Q(2, 1)>>)

\* R_k = np.array([[0.0225]])
R0 == Arr(<<1, 1>>, <<Q(225, 10000)>>)

\* np.arange(0, 0.8, 0.1).reshape(8, 1)
ILine == Arr(<<8, 1>>, [i \in 1..8 |-> Q(i - 1, 10)])

Header == "The slope and offset parameters of the best-fit line (i.e., the resistance and offset) are [R, b]:"

(***************************************************************************)
(* Longitudinal vehicle model notebook.  Its floats are modelled by        *)
(* decimals with four places, held as integers in units of 1/Scale; every  *)
(* product and quotient is rounded to the nearest unit, halves away from   *)
(* zero.  Products and quotients are formed by parts so that no            *)
(* intermediate value leaves the range of the integers.                    *)
(***************************************************************************)
Scale == 10000

Part == 100

Sign(n) == IF n < 0 THEN -1 ELSE 1

\* The float n / 10^places, for places <= 4.
Dec(n, places) ==
    IF places = 0 THEN n * Scale
    ELSE IF places = 1 THEN n * 1000
    ELSE IF places = 2 THEN n * 100
    ELSE IF places = 3 THEN n * 10
    ELSE n

\* n / d for d > 0, rounded to the nearest integer.
Nearest(n, d) ==
    LET q == Abs(n) \div d
        r == Abs(n) % d
    IN  Sign(n) * (IF r >= d - r THEN q + 1 ELSE q)

\* a * b
FMul(a, b) ==
    LET a1 == Abs(a) \div Scale
        a0 == Abs(a) % Scale
        b1 == Abs(b) \div Scale
        b0 == Abs(b) % Scale
    IN  Sign(a) * Sign(b) *
            (a1 * b1 * Scale + a1 * b0 + a0 * b1 + Nearest(a0 * b0, Scale))

\* a / b for b # 0, by long division in two steps of two decimal places.
FDiv(a, b) ==
    LET d  == Abs(b)
        q  == Abs(a) \div d
        r  == Abs(a) % d
        q1 == (r * Part) \div d
        r1 == (r * Part) % d
    IN  Sign(a) * Sign(b) * (q * Scale + q1 * Part + Nearest(r1 * Part, d))

\* math.sin by its series a - a^3/6 + a^5/120; the angles of the notebook
\* are below 0.1 rad, where the next term is below 1e-11.
Sin(a) ==
    LET a2 == FMul(a, a)
        a3 == FMul(a2, a)
        a5 == FMul(a3, a2)
    IN  a - Nearest(a3, 6) + Nearest(a5, 120)

\* math.atan2(y, x) for integers 0 < y, 10 * y <= x, by the series
\* z - z^3/3 + z^5/5 of atan at z = y / x <= 0.1 (next term below 1e-8).
Atan2(y, x) ==
    LET z  == FDiv(Dec(y, 0), Dec(x, 0))
        z2 == FMul(z, z)
        z3 == FMul(z2, z)
        z5 == FMul(z3, z2)
    IN  z - Nearest(z3, 3) + Nearest(z5, 5)

(***************************************************************************)
(* class Vehicle: the object is a record of its attributes.                *)
(***************************************************************************)
\* Mutant of reset: the engine speed is not restored.
resetKeepsEngine(self) ==
    [self EXCEPT !.x = 0,
                 !.v = Dec(5, 0),
                 !.a = 0,
                 !.w_e_dot = 0]

\* reset(self)
reset(self) ==
    [self EXCEPT !.x = 0,
                 !.v = Dec(5, 0),
                 !.a = 0,
                 !.w_e = Dec(100, 0),
                 !.w_e_dot = 0]

\* Vehicle(): __init__
Vehicle ==
    [a_0 |-> Dec(400, 0), a_1 |-> Dec(1, 1), a_2 |-> Dec(-2, 4),
     GR |-> Dec(35, 2), r_e |-> Dec(3, 1), J_e |-> Dec(10, 0),
     m |-> Dec(2000, 0), g |-> Dec(981, 2),
     c_a |-> Dec(136, 2), c_r1 |-> Dec(1, 2),
     c |-> Dec(10000, 0), F_max |-> Dec(10000, 0),
     x |-> 0, v |-> Dec(5, 0), a |-> 0, w_e |-> Dec(100, 0), w_e_dot |-> 0,
     sample_time |-> Dec(1, 2)]

\* The slip ratio s, the forces and the torque that step computes from the
\* advanced state (lines "Propagate").
Slip(self) == FDiv(FMul(FMul(self.GR, self.w_e), self.r_e), self.v) - Dec(1, 0)

\* Mutant of TireForce: the tire force does not saturate.
TireForceNoSaturation(self) == FMul(self.c, Slip(self))

TireForce(self) ==
    IF Abs(Slip(self)) < Dec(1, 0) THEN FMul(self.c, Slip(self)) ELSE self.F_max

LoadForce(self, al) ==
    LET F_g    == FMul(FMul(self.m, self.g), Sin(al))
        R_x    == FMul(self.c_r1, self.v)
        F_aero == FMul(self.c_a, FMul(self.v, self.v))
    IN  F_aero + R_x + F_g

EngineTorque(self, th) ==
    FMul(th, self.a_0 + FMul(self.a_1, self.w_e)
                      + FMul(self.a_2, FMul(self.w_e, self.w_e)))

Integrate(self) ==
    LET x_dot   == self.v
        v_dot   == self.a
        w_e_dot == self.w_e_dot
    IN  [self EXCEPT !.x = self.x + FMul(x_dot, self.sample_time),
                     !.v = self.v + FMul(v_dot, self.sample_time),
                     !.w_e = self.w_e + FMul(w_e_dot, self.sample_time)]

\* Mutant of Propagate: the new acceleration is applied to v at once.
PropagateAndAdvance(self, th, al) ==
    LET F_x    == TireForce(self)
        F_load == LoadForce(self, al)
        T_e    == EngineTorque(self, th)
    IN  [self EXCEPT !.a = FDiv(F_x - F_load, self.m),
                     !.v = self.v + FMul(FDiv(F_x - F_load, self.m), self.sample_time),
                     !.w_e_dot = FDiv(T_e - FMul(FMul(self.GR, self.r_e), F_load),
                                      self.J_e)]

Propagate(self, th, al) ==
    LET F_x    == TireForce(self)
        F_load == LoadForce(self, al)
        T_e    == EngineTorque(self, th)
    IN  [self EXCEPT !.a = FDiv(F_x - F_load, self.m),
                     !.w_e_dot = FDiv(T_e - FMul(FMul(self.GR, self.r_e), F_load),
                                      self.J_e)]

\* Mutant of step: the forces are computed from the state before it is advanced.
stepPropagateFirst(self, th, al) == Integrate(Propagate(self, th, al))

\* step(self, throttle, alpha)
step(self, th, al) == Propagate(Integrate(self), th, al)

\* A Vehicle object whose attributes are not set.
NoVehicle == [f \in DOMAIN Vehicle |-> 0]

VARIABLES
    pc,        \* the next statement or sub-expression to evaluate
    I, V,      \* the measurement columns (5x1)
    H, x_ls,   \* batch cell: design matrix and batch solution
    I_line, V_line,
    x_k, P_k, R_k, num_meas, x_hist, P_hist,
    it,        \* position of the range iterator of the for loop
    k, H_k, K_k,
    stk,       \* values of the sub-expressions evaluated so far in the current statement
    out,       \* what has been printed
    figs,      \* number of figures shown
    consumed   \* history: the measurement indices read by V[k], in order

estimator == <<pc, I, V, H, x_ls, I_line, V_line, x_k, P_k, R_k, num_meas, x_hist,
               P_hist, it, k, H_k, K_k, stk, out, figs, consumed>>

\* The kernel of the vehicle notebook.  twin is a history variable: a new
\* Vehicle() that has been given the inputs model got since it was last
\* constructed or reset.  calls counts the calls of a caller other than
\* the notebook, rng is the position of the range iterator of the running
\* for loop, args holds the arguments (throttle, alpha) of the latest call of
\* step, steps counts the calls of step since model was last constructed or
\* reset.
VARIABLES
    vpc, model, twin, sample_time, time_end, t_data, v_data, x_data,
    alpha_data, throttle_data, throttle, alpha, t_len, i_, t_, data_,
    xdata_txt, vfigs, calls, rng, args, steps

veh == <<vpc, model, twin, sample_time, time_end, t_data, v_data, x_data,
         alpha_data, throttle_data, throttle, alpha, t_len, i_, t_, data_,
         xdata_txt, vfigs, calls, rng, args, steps>>

vars == <<estimator, veh>>

\* Nothing of the vehicle notebook has run: no name is bound.
VehUnbound ==
    /\ vpc = "v1_class"
    /\ model = NoVehicle /\ twin = NoVehicle
    /\ sample_time = 0 /\ time_end = 0
    /\ t_data = <<>> /\ v_data = <<>> /\ x_data = <<>>
    /\ alpha_data = <<>> /\ throttle_data = <<>>
    /\ throttle = 0 /\ alpha = 0
    /\ t_len = 0 /\ i_ = 0 /\ t_ = 0
    /\ data_ = <<>> /\ xdata_txt = <<>>
    /\ vfigs = 0 /\ calls = 0 /\ rng = 0
    /\ args = <<0, 0>>
    /\ steps = 0

data == <<I, V>>
batch == <<H, x_ls, I_line, V_line>>
est == <<x_k, P_k>>
hist == <<x_hist, P_hist>>
loop == <<it, k, H_k, K_k>>
io == <<out, figs>>

Init ==
    /\ pc = "c1_I"
    /\ I = Unbound /\ V = Unbound
    /\ H = Unbound /\ x_ls = Unbound /\ I_line = Unbound /\ V_line = Unbound
    /\ x_k = Unbound /\ P_k = Unbound /\ R_k = Unbound
    /\ num_meas = -1
    /\ x_hist = Unbound /\ P_hist = Unbound
    /\ it = 0 /\ k = -1
    /\ H_k = Unbound /\ K_k = Unbound
    /\ stk = <<>>
    /\ out = <<>>
    /\ figs = 0
    /\ consumed = <<>>
    /\ VehUnbound

(***************************************************************************)
(* Cell 1: the data.  Cell 2: the scatter plot.                            *)
(***************************************************************************)
LoadI ==
    /\ pc = "c1_I"
    /\ I' = T(IData)
    /\ pc' = "c1_V"
    /\ UNCHANGED <<V, batch, est, R_k, num_meas, hist, loop, stk, io, consumed, veh>>

LoadV ==
    /\ pc = "c1_V"
    /\ V' = T(VData)
    /\ pc' = "c2_plot"
    /\ UNCHANGED <<I, batch, est, R_k, num_meas, hist, loop, stk, io, consumed, veh>>

ScatterPlot ==
    /\ pc = "c2_plot"
    /\ figs' = figs + 1
    /\ pc' = "c3_ones"
    /\ UNCHANGED <<data, batch, est, R_k, num_meas, hist, loop, stk, out, consumed, veh>>

(***************************************************************************)
(* Cell 3: the batch solution x_ls = inv(H.T.dot(H)).dot(H.T.dot(V)).      *)
(***************************************************************************)
BatchOnes ==
    /\ pc = "c3_ones"
    /\ H' = Ones(<<5, 2>>)
    /\ pc' = "c3_col"
    /\ UNCHANGED <<data, x_ls, I_line, V_line, est, R_k, num_meas, hist, loop, stk, io, consumed, veh>>

BatchCol ==
    /\ pc = "c3_col"
    /\ H' = SetCol0(H, Ravel(I))
    /\ pc' = "c3_HtH"
    /\ UNCHANGED <<data, x_ls, I_line, V_line, est, R_k, num_meas, hist, loop, stk, io, consumed, veh>>

BatchHtH ==
    /\ pc = "c3_HtH"
    /\ stk' = <<Dot(T(H), H)>>
    /\ pc' = "c3_inv"
    /\ UNCHANGED <<data, batch, est, R_k, num_meas, hist, loop, io, consumed, veh>>

BatchInv ==
    /\ pc = "c3_inv"
    /\ IF Singular(stk[1])
       THEN pc' = "LinAlgError" /\ stk' = <<>>
       ELSE pc' = "c3_HtV" /\ stk' = <<Inv(stk[1])>>
    /\ UNCHANGED <<data, batch, est, R_k, num_meas, hist, loop, io, consumed, veh>>

BatchHtV ==
    /\ pc = "c3_HtV"
    /\ stk' = Append(stk, Dot(T(H), V))
    /\ pc' = "c3_xls"
    /\ UNCHANGED <<data, batch, est, R_k, num_meas, hist, loop, io, consumed, veh>>

BatchSolve ==
    /\ pc = "c3_xls"
    /\ x_ls' = Dot(stk[1], stk[2])
    /\ stk' = <<>>
    /\ pc' = "c3_print"
    /\ UNCHANGED <<data, H, I_line, V_line, est, R_k, num_meas, hist, loop, io, consumed, veh>>

BatchPrint ==
    /\ pc = "c3_print"
    /\ out' = out \o << [s |-> Header, q |-> Zero],
                        [s |-> "", q |-> At2(x_ls, 0, 0)],
                        [s |-> "", q |-> At2(x_ls, 1, 0)] >>
    /\ pc' = "c3_Iline"
    /\ UNCHANGED <<data, batch, est, R_k, num_meas, hist, loop, stk, figs, consumed, veh>>

BatchILine ==
    /\ pc = "c3_Iline"
    /\ I_line' = ILine
    /\ pc' = "c3_Vline"
    /\ UNCHANGED <<data, H, x_ls, V_line, est, R_k, num_meas, hist, loop, stk, io, consumed, veh>>

\* V_line = x_ls[0]*I_line + x_ls[1]: the two (1,) rows broadcast over the (8, 1) column.
BatchVLine ==
    /\ pc = "c3_Vline"
    /\ V_line' = Arr(I_line.shape,
                     [i \in 1..Len(I_line.a) |->
                        QAdd(QMul(At1(Get(x_ls, 0), 0), I_line.a[i]), At1(Get(x_ls, 1), 0))])
    /\ pc' = "c3_plot"
    /\ UNCHANGED <<data, H, x_ls, I_line, est, R_k, num_meas, hist, loop, stk, io, consumed, veh>>

BatchPlot ==
    /\ pc = "c3_plot"
    /\ figs' = figs + 1
    /\ pc' = "c5_x0"
    /\ UNCHANGED <<data, batch, est, R_k, num_meas, hist, loop, stk, out, consumed, veh>>

(***************************************************************************)
(* Cell 5: the recursive solution.  Initialization.                        *)
(***************************************************************************)
InitX ==
    /\ pc = "c5_x0"
    /\ x_k' = X0
    /\ pc' = "c5_P0"
    /\ UNCHANGED <<data, batch, P_k, R_k, num_meas, hist, loop, stk, io, consumed, veh>>

InitP ==
    /\ pc = "c5_P0"
    /\ P_k' = P0
    /\ pc' = "c5_R"
    /\ UNCHANGED <<data, batch, x_k, R_k, num_meas, hist, loop, stk, io, consumed, veh>>

InitR ==
    /\ pc = "c5_R"
    /\ R_k' = R0
    /\ pc' = "c5_num"
    /\ UNCHANGED <<data, batch, est, num_meas, hist, loop, stk, io, consumed, veh>>

\* num_meas = I.shape[0]
InitNum ==
    /\ pc = "c5_num"
    /\ num_meas' = I.shape[1]
    /\ pc' = "c5_xhist"
    /\ UNCHANGED <<data, batch, est, R_k, hist, loop, stk, io, consumed, veh>>

AllocX ==
    /\ pc = "c5_xhist"
    /\ x_hist' = Zeros(<<num_meas + 1, 2>>)
    /\ pc' = "c5_Phist"
    /\ UNCHANGED <<data, batch, est, R_k, num_meas, P_hist, loop, stk, io, consumed, veh>>

AllocP ==
    /\ pc = "c5_Phist"
    /\ P_hist' = Zeros(<<num_meas + 1, 2, 2>>)
    /\ pc' = "c5_xh0"
    /\ UNCHANGED <<data, batch, est, R_k, num_meas, x_hist, loop, stk, io, consumed, veh>>

SaveX0 ==
    /\ pc = "c5_xh0"
    /\ x_hist' = Set(x_hist, 0, x_k)
    /\ pc' = "c5_Ph0"
    /\ UNCHANGED <<data, batch, est, R_k, num_meas, P_hist, loop, stk, io, consumed, veh>>

SaveP0 ==
    /\ pc = "c5_Ph0"
    /\ P_hist' = Set(P_hist, 0, P_k)
    /\ pc' = "c5_for"
    /\ UNCHANGED <<data, batch, est, R_k, num_meas, x_hist, loop, stk, io, consumed, veh>>

(***************************************************************************)
(* The loop: for k in range(num_meas).                                     *)
(***************************************************************************)

\* Mutant of ForNext: the loop stops one measurement short.
ForNextShort ==
    /\ pc = "c5_for"
    /\ IF it < num_meas - 1
       THEN k' = it /\ it' = it + 1 /\ pc' = "c5_H"
       ELSE UNCHANGED <<k, it>> /\ pc' = "c5_print"
    /\ UNCHANGED <<data, batch, est, R_k, num_meas, hist, H_k, K_k, stk, io, consumed, veh>>

ForNext ==
    /\ pc = "c5_for"
    /\ IF it < num_meas
       THEN k' = it /\ it' = it + 1 /\ pc' = "c5_H"
       ELSE UNCHANGED <<k, it>> /\ pc' = "c5_print"
    /\ UNCHANGED <<data, batch, est, R_k, num_meas, hist, H_k, K_k, stk, io, consumed, veh>>

\* Mutant of MakeH: the row is built from the first measurement every time.
MakeHFirstRow ==
    /\ pc = "c5_H"
    /\ H_k' = Arr(<<1, 2>>, <<At1(Get(I, 0), 0), One>>)
    /\ pc' = "c5_K1"
    /\ UNCHANGED <<data, batch, est, R_k, num_meas, hist, it, k, K_k, stk, io, consumed, veh>>

\* H_k = np.array([[I[k], 1.0]]): the one-element row I[k] becomes the scalar I[k][0].
MakeH ==
    /\ pc = "c5_H"
    /\ H_k' = Arr(<<1, 2>>, <<At1(Get(I, k), 0), One>>)
    /\ pc' = "c5_K1"
    /\ UNCHANGED <<data, batch, est, R_k, num_meas, hist, it, k, K_k, stk, io, consumed, veh>>

\* K_k = np.dot(P_k, np.dot(H_k.T, inv(np.dot(H_k, np.dot(P_k, H_k.T)) + R_k))),
\* innermost call first.
GainPHt ==
    /\ pc = "c5_K1"
    /\ stk' = <<Dot(P_k, T(H_k))>>
    /\ pc' = "c5_K2"
    /\ UNCHANGED <<data, batch, est, R_k, num_meas, hist, loop, io, consumed, veh>>

GainHPHt ==
    /\ pc = "c5_K2"
    /\ stk' = <<Dot(H_k, stk[1])>>
    /\ pc' = "c5_K3"
    /\ UNCHANGED <<data, batch, est, R_k, num_meas, hist, loop, io, consumed, veh>>


\* Mutant of GainS: the measurement noise R_k is left out of S.
GainSNoNoise ==
    /\ pc = "c5_K3"
    /\ stk' = <<stk[1]>>
    /\ pc' = "c5_K4"
    /\ UNCHANGED <<data, batch, est, R_k, num_meas, hist, loop, io, consumed, veh>>

GainS ==
    /\ pc = "c5_K3"
    /\ stk' = <<Add(stk[1], R_k)>>
    /\ pc' = "c5_K4"
    /\ UNCHANGED <<data, batch, est, R_k, num_meas, hist, loop, io, consumed, veh>>

GainInv ==
    /\ pc = "c5_K4"
    /\ IF Singular(stk[1])
       THEN pc' = "LinAlgError" /\ stk' = <<>>
       ELSE pc' = "c5_K5" /\ stk' = <<Inv(stk[1])>>
    /\ UNCHANGED <<data, batch, est, R_k, num_meas, hist, loop, io, consumed, veh>>

GainHtSi ==
    /\ pc = "c5_K5"
    /\ stk' = <<Dot(T(H_k), stk[1])>>
    /\ pc' = "c5_K6"
    /\ UNCHANGED <<data, batch, est, R_k, num_meas, hist, loop, io, consumed, veh>>

\* Mutant of GainK: a gain left over from an earlier run of the cell is reused.
GainKStale ==
    /\ pc = "c5_K6"
    /\ K_k' = IF K_k = Unbound THEN Dot(P_k, stk[1]) ELSE K_k
    /\ stk' = <<>>
    /\ pc' = "c5_x1"
    /\ UNCHANGED <<data, batch, est, R_k, num_meas, hist, it, k, H_k, io, consumed, veh>>

GainK ==
    /\ pc = "c5_K6"
    /\ K_k' = Dot(P_k, stk[1])
    /\ stk' = <<>>
    /\ pc' = "c5_x1"
    /\ UNCHANGED <<data, batch, est, R_k, num_meas, hist, it, k, H_k, io, consumed, veh>>

\* x_k = x_k + np.dot(K_k, (V[k] - np.dot(H_k, x_k)))
EstPred ==
    /\ pc = "c5_x1"
    /\ stk' = <<Dot(H_k, x_k)>>
    /\ pc' = "c5_x2"
    /\ UNCHANGED <<data, batch, est, R_k, num_meas, hist, loop, io, consumed, veh>>


\* Mutant of EstInnov: the innovation with the wrong sign (prediction - observation).
EstInnovFlipped ==
    /\ pc = "c5_x2"
    /\ stk' = <<Sub(stk[1], Get(V, k))>>
    /\ consumed' = Append(consumed, k)
    /\ pc' = "c5_x3"
    /\ UNCHANGED <<data, batch, est, R_k, num_meas, hist, loop, io, veh>>

EstInnov ==
    /\ pc = "c5_x2"
    /\ stk' = <<Sub(Get(V, k), stk[1])>>
    /\ consumed' = Append(consumed, k)
    /\ pc' = "c5_x3"
    /\ UNCHANGED <<data, batch, est, R_k, num_meas, hist, loop, io, veh>>

EstCorr ==
    /\ pc = "c5_x3"
    /\ stk' = <<Dot(K_k, stk[1])>>
    /\ pc' = "c5_x4"
    /\ UNCHANGED <<data, batch, est, R_k, num_meas, hist, loop, io, consumed, veh>>

EstUpdate ==
    /\ pc = "c5_x4"
    /\ x_k' = Add(x_k, stk[1])
    /\ stk' = <<>>
    /\ pc' = "c5_P1"
    /\ UNCHANGED <<data, batch, P_k, R_k, num_meas, hist, loop, io, consumed, veh>>

\* P_k = np.dot((np.eye(2,2) - np.dot(K_k, H_k)), P_k)
CovKH ==
    /\ pc = "c5_P1"
    /\ stk' = <<Dot(K_k, H_k)>>
    /\ pc' = "c5_P2"
    /\ UNCHANGED <<data, batch, est, R_k, num_meas, hist, loop, io, consumed, veh>>


\* Mutant of CovIKH: I + K H instead of I - K H.
CovIKHPlus ==
    /\ pc = "c5_P2"
    /\ stk' = <<Add(Eye(2, 2), stk[1])>>
    /\ pc' = "c5_P3"
    /\ UNCHANGED <<data, batch, est, R_k, num_meas, hist, loop, io, consumed, veh>>

CovIKH ==
    /\ pc = "c5_P2"
    /\ stk' = <<Sub(Eye(2, 2), stk[1])>>
    /\ pc' = "c5_P3"
    /\ UNCHANGED <<data, batch, est, R_k, num_meas, hist, loop, io, consumed, veh>>


\* Mutant of CovUpdate: the factors of the product swapped, P (I - K H).
CovUpdateSwapped ==
    /\ pc = "c5_P3"
    /\ P_k' = Dot(P_k, stk[1])
    /\ stk' = <<>>
    /\ pc' = "c5_Ph"
    /\ UNCHANGED <<data, batch, x_k, R_k, num_meas, hist, loop, io, consumed, veh>>

CovUpdate ==
    /\ pc = "c5_P3"
    /\ P_k' = Dot(stk[1], P_k)
    /\ stk' = <<>>
    /\ pc' = "c5_Ph"
    /\ UNCHANGED <<data, batch, x_k, R_k, num_meas, hist, loop, io, consumed, veh>>

SaveP ==
    /\ pc = "c5_Ph"
    /\ P_hist' = Set(P_hist, k + 1, P_k)
    /\ pc' = "c5_xh"
    /\ UNCHANGED <<data, batch, est, R_k, num_meas, x_hist, loop, stk, io, consumed, veh>>


\* Mutant of SaveX: the estimate is stored in slot k instead of k + 1.
SaveXSameSlot ==
    /\ pc = "c5_xh"
    /\ x_hist' = Set(x_hist, k, x_k)
    /\ pc' = "c5_for"
    /\ UNCHANGED <<data, batch, est, R_k, num_meas, P_hist, loop, stk, io, consumed, veh>>

SaveX ==
    /\ pc = "c5_xh"
    /\ x_hist' = Set(x_hist, k + 1, x_k)
    /\ pc' = "c5_for"
    /\ UNCHANGED <<data, batch, est, R_k, num_meas, P_hist, loop, stk, io, consumed, veh>>

\* The three prints after the loop; x_k[0, 0] of a 1-D x_k raises IndexError
\* after the header line has been printed.
FinalPrint ==
    /\ pc = "c5_print"
    /\ IF ndim(x_k) = 2
       THEN /\ out' = out \o << [s |-> Header, q |-> Zero],
                                [s |-> "", q |-> At2(x_k, 0, 0)],
                                [s |-> "", q |-> At2(x_k, 1, 0)] >>
            /\ pc' = "c6_plot"
       ELSE /\ out' = Append(out, [s |-> Header, q |-> Zero])
            /\ pc' = "IndexError"
    /\ UNCHANGED <<data, batch, est, R_k, num_meas, hist, loop, stk, figs, consumed, veh>>

Cell1 == LoadI \/ LoadV

Cell2 == ScatterPlot

Cell3 ==
    \/ BatchOnes \/ BatchCol \/ BatchHtH \/ BatchInv \/ BatchHtV \/ BatchSolve
    \/ BatchPrint \/ BatchILine \/ BatchVLine \/ BatchPlot

Prior == InitX \/ InitP \/ InitR

Recursion ==
    \/ InitNum \/ AllocX \/ AllocP \/ SaveX0 \/ SaveP0
    \/ ForNext \/ MakeH
    \/ GainPHt \/ GainHPHt \/ GainS \/ GainInv \/ GainHtSi \/ GainK
    \/ EstPred \/ EstInnov \/ EstCorr \/ EstUpdate
    \/ CovKH \/ CovIKH \/ CovUpdate
    \/ SaveP \/ SaveX

Next == Cell1 \/ Cell2 \/ Cell3 \/ Prior \/ Recursion \/ FinalPrint

Spec == Init /\ [][Next]_vars

(***************************************************************************)
(* The update as a function of its inputs: the same loop, started from     *)
(* any valid prior covariance, any current, voltage and noise variance     *)
(* r > 0, with the same measurement presented NumRep times.                *)
(***************************************************************************)
MaxP == 2
MaxCur == 2
MaxR == 2
NumRep == 2

Symmetric(P) == At2(P, 0, 1) = At2(P, 1, 0)

\* v^T P v >= 0 for every v: the symmetric part of P is non-negative-definite.
NonNegDef(P) ==
    LET b2 == QAdd(At2(P, 0, 1), At2(P, 1, 0))
    IN  /\ QLe(Zero, At2(P, 0, 0))
        /\ QLe(Zero, At2(P, 1, 1))
        /\ QLe(QMul(b2, b2), QMul(Q(4, 1), QMul(At2(P, 0, 0), At2(P, 1, 1))))

ValidCov(P) == Symmetric(P) /\ NonNegDef(P)

CovInputs ==
    {P \in {Arr(<<2, 2>>, <<Q(a, 1), Q(b, 1), Q(b, 1), Q(c, 1)>>) :
                a \in 0..MaxP, b \in -MaxP..MaxP, c \in 0..MaxP} : ValidCov(P)}

CurrentInputs == {Q(n, 2) : n \in -MaxCur..MaxCur}

VoltageInputs == {Zero, One}

NoiseInputs == {Q(n, 2) : n \in 1..MaxR}

Repeat(q) == Arr(<<NumRep, 1>>, [i \in 1..NumRep |-> q])

InitUpd ==
    /\ pc = "c5_num"
    /\ \E c \in CurrentInputs : I = Repeat(c)
    /\ \E y \in VoltageInputs : V = Repeat(y)
    /\ H = Unbound /\ x_ls = Unbound /\ I_line = Unbound /\ V_line = Unbound
    /\ x_k = X0
    /\ P_k \in CovInputs
    /\ \E r \in NoiseInputs : R_k = Arr(<<1, 1>>, <<r>>)
    /\ num_meas = -1
    /\ x_hist = Unbound /\ P_hist = Unbound
    /\ it = 0 /\ k = -1
    /\ H_k = Unbound /\ K_k = Unbound
    /\ stk = <<>>
    /\ out = <<>>
    /\ figs = 0
    /\ consumed = <<>>
    /\ VehUnbound

SpecUpd == InitUpd /\ [][Recursion]_vars

(***************************************************************************)
(* The estimator cell run in a kernel that is either fresh or holds what   *)
(* an earlier run of the notebook left behind: the loop temporaries k, H_k *)
(* and K_k, the history arrays, num_meas, the batch results, the output.   *)
(* The inputs of the recursion are drawn as in InitUpd, with the R_k of    *)
(* the notebook.                                                           *)
(***************************************************************************)
StaleRow == Arr(<<1, 2>>, <<One, One>>)
StaleGain == Arr(<<2, 1>>, <<One, One>>)

InitRerun ==
    /\ pc = "c5_num"
    /\ \E c \in CurrentInputs : I = Repeat(c)
    /\ \E y \in VoltageInputs : V = Repeat(y)
    /\ x_k = X0
    /\ P_k \in CovInputs
    /\ R_k = R0
    /\ it = 0
    /\ stk = <<>>
    /\ consumed = <<>>
    /\ VehUnbound
    /\ I_line = Unbound /\ V_line = Unbound
    /\ \E stale \in BOOLEAN :
          /\ H = (IF stale THEN Ones(<<NumRep, 2>>) ELSE Unbound)
          /\ x_ls = (IF stale THEN StaleGain ELSE Unbound)
          /\ num_meas = (IF stale THEN 5 ELSE -1)
          /\ x_hist = (IF stale THEN Ones(<<6, 2>>) ELSE Unbound)
          /\ P_hist = (IF stale THEN Ones(<<6, 2, 2>>) ELSE Unbound)
          /\ k = (IF stale THEN 4 ELSE -1)
          /\ H_k = (IF stale THEN StaleRow ELSE Unbound)
          /\ K_k = (IF stale THEN StaleGain ELSE Unbound)
          /\ out = (IF stale THEN <<Header>> ELSE <<>>)
          /\ figs = (IF stale THEN 2 ELSE 0)

SpecRerun == InitRerun /\ [][Recursion]_vars

(***************************************************************************)
(* The estimator cell given the measurements of the notebook in any order: *)
(* the (current, voltage) pairs of cell 1 permuted together, then the cell *)
(* as written, from the initialization of x_k on.                          *)
(***************************************************************************)
Orders ==
    {f \in [1..Len(IData.a) -> 1..Len(IData.a)] :
        \A m, n \in 1..Len(IData.a) : f[m] = f[n] => m = n}

\* The rows of the column A in the order f.
Reorder(A, f) == Arr(A.shape, [n \in 1..Len(A.a) |-> A.a[f[n]]])

InitOrder ==
    /\ pc = "c5_x0"
    /\ \E f \in Orders :
          /\ I = Reorder(T(IData), f)
          /\ V = Reorder(T(VData), f)
    /\ H = Unbound /\ x_ls = Unbound /\ I_line = Unbound /\ V_line = Unbound
    /\ x_k = Unbound /\ P_k = Unbound /\ R_k = Unbound
    /\ num_meas = -1
    /\ x_hist = Unbound /\ P_hist = Unbound
    /\ it = 0 /\ k = -1
    /\ H_k = Unbound /\ K_k = Unbound
    /\ stk = <<>>
    /\ out = <<>>
    /\ figs = 0
    /\ consumed = <<>>
    /\ VehUnbound

SpecOrder == InitOrder /\ [][Prior \/ Recursion]_vars

(***************************************************************************)
(* The vehicle notebook, cell by cell.                                     *)
(* A statement of a cell is one step; the for statements of cells 3 and 4  *)
(* run to their end in one step, the for statement of cell 6 is taken one  *)
(* iteration at a time.                                                    *)
(***************************************************************************)
sim == <<model, twin, args, steps>>
clock == <<sample_time, time_end>>
arrays == <<t_data, v_data, x_data, alpha_data, throttle_data>>
inputs == <<throttle, alpha>>
index == <<t_len, i_, t_, rng>>
saved == <<data_, xdata_txt>>

\* np.arange(0, stop, step) and np.zeros_like
Arange(stop, stp) == [n \in 1..((stop + stp - 1) \div stp) |-> (n - 1) * stp]

ZerosLike(A) == [n \in 1..Len(A) |-> 0]

\* The object and its history variables as one record; raised tells whether
\* a call of step failed.
Sim == [model |-> model, twin |-> twin, args |-> args, steps |-> steps, raised |-> FALSE]

\* model.step(th, al) applied to such a record; the division by self.v
\* raises when the advanced v is 0, and nothing runs after that.
Called(s, th, al) ==
    IF s.raised THEN s
    ELSE IF Integrate(s.model).v = 0
    THEN [model |-> Integrate(s.model), twin |-> Integrate(s.twin),
          args |-> <<th, al>>, steps |-> s.steps + 1, raised |-> TRUE]
    ELSE [model |-> step(s.model, th, al), twin |-> step(s.twin, th, al),
          args |-> <<th, al>>, steps |-> s.steps + 1, raised |-> FALSE]

\* The new values of the object and the position after a statement that
\* leaves the record r.
Becomes(r, after) ==
    /\ model' = r.model
    /\ twin' = r.twin
    /\ args' = r.args
    /\ steps' = r.steps
    /\ vpc' = (IF r.raised THEN "ZeroDivisionError" ELSE after)

\* The statement model.step(th, al).
CallStep(th, al, after) ==
    \E r \in {Called(Sim, th, al)} : Becomes(r, after)

\* model.reset()
CallReset ==
    /\ model' = reset(model)
    /\ twin' = Vehicle
    /\ steps' = 0
    /\ UNCHANGED args

\* Cells 1 and 2: the class statements.
DefineVehicle ==
    /\ vpc = "v1_class"
    /\ vpc' = "v2_step"
    /\ UNCHANGED <<estimator, sim, clock, arrays, inputs, index, saved, vfigs, calls>>

DefineStep ==
    /\ vpc = "v2_step"
    /\ vpc' = "v3_clock"
    /\ UNCHANGED <<estimator, sim, clock, arrays, inputs, index, saved, vfigs, calls>>

\* Cell 3: 100 s at constant throttle on level ground.
Run1Clock ==
    /\ vpc = "v3_clock"
    /\ sample_time' = Dec(1, 2)
    /\ time_end' = Dec(100, 0)
    /\ vpc' = "v3_model"
    /\ UNCHANGED <<estimator, sim, arrays, inputs, index, saved, vfigs, calls>>

Construct ==
    /\ vpc = "v3_model"
    /\ model' = Vehicle
    /\ twin' = Vehicle
    /\ steps' = 0
    /\ vpc' = "v3_arrays"
    /\ UNCHANGED <<estimator, args, clock, arrays, inputs, index, saved, vfigs, calls>>

Run1Arrays ==
    /\ vpc = "v3_arrays"
    /\ t_data' = Arange(time_end, sample_time)
    /\ v_data' = ZerosLike(Arange(time_end, sample_time))
    /\ vpc' = "v3_inputs"
    /\ UNCHANGED <<estimator, sim, clock, x_data, alpha_data, throttle_data, inputs,
                   index, saved, vfigs, calls>>

Run1Inputs ==
    /\ vpc = "v3_inputs"
    /\ throttle' = Dec(2, 1)
    /\ alpha' = 0
    /\ vpc' = "v3_for"
    /\ UNCHANGED <<estimator, sim, clock, arrays, index, saved, vfigs, calls>>

\* One iteration of the loop of cell 3: v_data[i] = model.v, then
\* model.step(throttle, alpha).
Run1Body(f, i) ==
    IF f.sim.raised THEN f
    ELSE [sim |-> Called(f.sim, throttle, alpha),
          v_data |-> [f.v_data EXCEPT ![i + 1] = f.sim.model.v],
          i |-> i]

\* The iterations lo .. hi - 1 in order: the first half, then the second
\* half from what the first half leaves.
RECURSIVE Run1Range(_, _, _)
Run1Range(f, lo, hi) ==
    IF hi <= lo THEN f
    ELSE IF hi = lo + 1 THEN Run1Body(f, lo)
    ELSE CHOOSE r \in {Run1Range(g, (lo + hi) \div 2, hi) :
                           g \in {Run1Range(f, lo, (lo + hi) \div 2)}} : TRUE

\* for i in range(t_data.shape[0]): ...
Run1Loop ==
    /\ vpc = "v3_for"
    /\ \E f \in {Run1Range([sim |-> Sim, v_data |-> v_data, i |-> i_], 0, Len(t_data))} :
          /\ Becomes(f.sim, "v3_plot")
          /\ v_data' = f.v_data
          /\ i_' = f.i
    /\ UNCHANGED <<estimator, clock, t_data, x_data, alpha_data, throttle_data, inputs,
                   t_len, t_, rng, saved, vfigs, calls>>

Run1Plot ==
    /\ vpc = "v3_plot"
    /\ vfigs' = vfigs + 1
    /\ vpc' = "v4_arrays"
    /\ UNCHANGED <<estimator, sim, clock, arrays, inputs, index, saved, calls>>

VCell3 ==
    \/ Run1Clock \/ Construct \/ Run1Arrays \/ Run1Inputs
    \/ Run1Loop \/ Run1Plot

\* Cell 4: 20 s over the ramp with the scripted throttle.
RampArrays ==
    /\ vpc = "v4_arrays"
    /\ time_end' = Dec(20, 0)
    /\ t_data' = Arange(Dec(20, 0), sample_time)
    /\ x_data' = ZerosLike(Arange(Dec(20, 0), sample_time))
    /\ v_data' = ZerosLike(Arange(Dec(20, 0), sample_time))
    /\ alpha_data' = ZerosLike(Arange(Dec(20, 0), sample_time))
    /\ throttle_data' = ZerosLike(Arange(Dec(20, 0), sample_time))
    /\ vpc' = "v4_reset"
    /\ UNCHANGED <<estimator, sim, sample_time, inputs, index, saved, vfigs, calls>>

RampReset ==
    /\ vpc = "v4_reset"
    /\ CallReset
    /\ vpc' = "v4_len"
    /\ UNCHANGED <<estimator, clock, arrays, inputs, index, saved, vfigs, calls>>

RampLen ==
    /\ vpc = "v4_len"
    /\ t_len' = Len(t_data)
    /\ vpc' = "v4_tfor"
    /\ UNCHANGED <<estimator, sim, clock, arrays, inputs, i_, t_, rng, saved, vfigs, calls>>

\* Mutant of ThrottleProfile: no throttle at all.
ThrottleProfileZero(t, n) == 0

\* Mutant of ThrottleProfile: the ramp segment ends at 0.45, below the hold.
ThrottleProfileJump(t, n) ==
    IF Dec(t, 0) <= FDiv(Dec(n, 0), Dec(4, 0))
    THEN Dec(2, 1) + FDiv(FMul(Dec(25, 2), Dec(t, 0)), FDiv(Dec(n, 0), Dec(4, 0)))
    ELSE IF /\ FDiv(Dec(n, 0), Dec(4, 0)) < Dec(t, 0)
            /\ Dec(t, 0) <= FDiv(Dec(3 * n, 0), Dec(4, 0))
         THEN Dec(5, 1)
         ELSE Dec(5, 1) - FDiv(FMul(Dec(1, 3), Dec(n - t, 0)), Dec(4, 0))

\* The value the throttle loop stores at index t when t_len is n.
ThrottleProfile(t, n) ==
    IF Dec(t, 0) <= FDiv(Dec(n, 0), Dec(4, 0))
    THEN Dec(2, 1) + FDiv(FMul(Dec(3, 1), Dec(t, 0)), FDiv(Dec(n, 0), Dec(4, 0)))
    ELSE IF /\ FDiv(Dec(n, 0), Dec(4, 0)) < Dec(t, 0)
            /\ Dec(t, 0) <= FDiv(Dec(3 * n, 0), Dec(4, 0))
         THEN Dec(5, 1)
         ELSE Dec(5, 1) - FDiv(FMul(Dec(1, 3), Dec(n - t, 0)), Dec(4, 0))

\* for t in range(t_len): throttle_data[t] = ...; the loop leaves t at the
\* last index.
ThrottleLoop ==
    /\ vpc = "v4_tfor"
    /\ throttle_data' = [n \in 1..Len(throttle_data) |->
                            IF n <= t_len THEN ThrottleProfile(n - 1, t_len)
                            ELSE throttle_data[n]]
    /\ t_' = (IF t_len > 0 THEN t_len - 1 ELSE t_)
    /\ vpc' = "v4_for"
    /\ UNCHANGED <<estimator, sim, clock, t_data, v_data, x_data, alpha_data, inputs,
                   t_len, i_, rng, saved, vfigs, calls>>

\* Mutant of Incline: the first part of the ramp is as steep as the second.
InclineSteep(x, old) ==
    IF x < Dec(150, 0) THEN Atan2(9, 90)
    ELSE old

\* Mutant of Incline: beyond 150 m the angle of the steeper part stays.
InclineNoFlat(x, old) ==
    IF x < Dec(60, 0) THEN Atan2(3, 60)
    ELSE Atan2(9, 90)

\* The incline the ramp loop stores for position x; old is the value the
\* slot holds when neither branch assigns it.
Incline(x, old) ==
    IF x < Dec(60, 0) THEN Atan2(3, 60)
    ELSE IF x < Dec(150, 0) THEN Atan2(9, 90)
    ELSE old

\* Mutant of RampBody: the step is made before the state is stored.
RampBodyStepFirst(f, i) ==
    IF f.sim.raised THEN f
    ELSE LET al == Incline(f.sim.model.x, f.alpha_data[i + 1])
             r == Called(f.sim, throttle_data[i + 1], al)
         IN [sim |-> r,
             x_data |-> [f.x_data EXCEPT ![i + 1] = r.model.x],
             v_data |-> [f.v_data EXCEPT ![i + 1] = r.model.v],
             alpha_data |-> [f.alpha_data EXCEPT ![i + 1] = al],
             i |-> i]

\* One iteration of the ramp loop: x_data[i] = model.x, v_data[i] = model.v,
\* alpha_data[i] by the position, then model.step(throttle_data[i],
\* alpha_data[i]).
RampBody(f, i) ==
    IF f.sim.raised THEN f
    ELSE LET al == Incline(f.sim.model.x, f.alpha_data[i + 1])
         IN [sim |-> Called(f.sim, throttle_data[i + 1], al),
             x_data |-> [f.x_data EXCEPT ![i + 1] = f.sim.model.x],
             v_data |-> [f.v_data EXCEPT ![i + 1] = f.sim.model.v],
             alpha_data |-> [f.alpha_data EXCEPT ![i + 1] = al],
             i |-> i]

\* The iterations lo .. hi - 1 in order: the first half, then the second
\* half from what the first half leaves.
RECURSIVE RampRange(_, _, _)
RampRange(f, lo, hi) ==
    IF hi <= lo THEN f
    ELSE IF hi = lo + 1 THEN RampBody(f, lo)
    ELSE CHOOSE r \in {RampRange(g, (lo + hi) \div 2, hi) :
                           g \in {RampRange(f, lo, (lo + hi) \div 2)}} : TRUE

\* for i in range(t_len): ...
RampLoop ==
    /\ vpc = "v4_for"
    /\ \E f \in {RampRange([sim |-> Sim, x_data |-> x_data, v_data |-> v_data,
                              alpha_data |-> alpha_data, i |-> i_], 0, t_len)} :
          /\ Becomes(f.sim, "v4_plot")
          /\ x_data' = f.x_data
          /\ v_data' = f.v_data
          /\ alpha_data' = f.alpha_data
          /\ i_' = f.i
    /\ UNCHANGED <<estimator, clock, t_data, throttle_data, inputs, t_len, t_, rng,
                   saved, vfigs, calls>>

RampPlot ==
    /\ vpc = "v4_plot"
    /\ vfigs' = vfigs + 1
    /\ vpc' = "v5_stack"
    /\ UNCHANGED <<estimator, sim, clock, arrays, inputs, index, saved, calls>>

VCell4 ==
    \/ RampArrays \/ RampReset \/ RampLen \/ ThrottleLoop
    \/ RampLoop \/ RampPlot

\* Cell 5: data = np.vstack([t_data, x_data]).T, one row (t, x) per sample.
Stack ==
    /\ vpc = "v5_stack"
    /\ data_' = [n \in 1..Len(t_data) |-> <<t_data[n], x_data[n]>>]
    /\ vpc' = "v5_save"
    /\ UNCHANGED <<estimator, sim, clock, arrays, inputs, index, xdata_txt, vfigs, calls>>

\* np.savetxt('xdata.txt', data, delimiter=', '): one line per row; the
\* format %.18e holds every digit of a float.
SaveTxt ==
    /\ vpc = "v5_save"
    /\ xdata_txt' = data_
    /\ vpc' = "v6_setup"
    /\ UNCHANGED <<estimator, sim, clock, arrays, inputs, index, data_, vfigs, calls>>

VCell5 == Stack \/ SaveTxt

\* Cell 6: 30 s with no throttle on level ground.
CoastSetup ==
    /\ vpc = "v6_setup"
    /\ sample_time' = Dec(1, 2)
    /\ time_end' = Dec(30, 0)
    /\ CallReset
    /\ t_data' = Arange(Dec(30, 0), Dec(1, 2))
    /\ x_data' = ZerosLike(Arange(Dec(30, 0), Dec(1, 2)))
    /\ rng' = 0
    /\ vpc' = "v6_for"
    /\ UNCHANGED <<estimator, v_data, alpha_data, throttle_data, inputs, t_len, i_, t_,
                   saved, vfigs, calls>>

\* for i in range(t_data.shape[0]): model.step(0,0)
CoastStep ==
    /\ vpc = "v6_for"
    /\ IF rng < Len(t_data)
       THEN /\ i_' = rng
            /\ rng' = rng + 1
            /\ CallStep(0, 0, "v6_for")
       ELSE /\ UNCHANGED <<i_, rng, sim>>
            /\ vpc' = "v6_plot"
    /\ UNCHANGED <<estimator, clock, arrays, inputs, t_len, t_, saved, vfigs, calls>>

\* plt.plot(x_data, y_data): the name y_data is bound nowhere.
CoastPlot ==
    /\ vpc = "v6_plot"
    /\ vpc' = "NameError"
    /\ UNCHANGED <<estimator, sim, clock, arrays, inputs, index, saved, vfigs, calls>>

VCell6 == CoastSetup \/ CoastStep \/ CoastPlot

VNext == DefineVehicle \/ DefineStep \/ VCell3 \/ VCell4 \/ VCell5 \/ VCell6

SpecVeh == Init /\ [][VNext]_vars

(***************************************************************************)
(* The Vehicle object driven by any caller: up to MaxCalls calls of step   *)
(* with arguments from small sets, and reset at any time.                  *)
(***************************************************************************)
MaxCalls == 7

ThrottleInputs == {0, Dec(5, 1)}

AlphaInputs == {-Atan2(9, 90), Atan2(3, 60)}

InitAny ==
    /\ pc = "c1_I"
    /\ I = Unbound /\ V = Unbound
    /\ H = Unbound /\ x_ls = Unbound /\ I_line = Unbound /\ V_line = Unbound
    /\ x_k = Unbound /\ P_k = Unbound /\ R_k = Unbound
    /\ num_meas = -1
    /\ x_hist = Unbound /\ P_hist = Unbound
    /\ it = 0 /\ k = -1
    /\ H_k = Unbound /\ K_k = Unbound
    /\ stk = <<>> /\ out = <<>> /\ figs = 0 /\ consumed = <<>>
    /\ vpc = "any"
    /\ model = Vehicle /\ twin = Vehicle
    /\ sample_time = 0 /\ time_end = 0
    /\ t_data = <<>> /\ v_data = <<>> /\ x_data = <<>>
    /\ alpha_data = <<>> /\ throttle_data = <<>>
    /\ throttle = 0 /\ alpha = 0
    /\ t_len = 0 /\ i_ = 0 /\ t_ = 0
    /\ data_ = <<>> /\ xdata_txt = <<>>
    /\ vfigs = 0 /\ calls = 0 /\ rng = 0
    /\ args = <<0, 0>>
    /\ steps = 0

AnyStep ==
    /\ vpc = "any"
    /\ calls < MaxCalls
    /\ \E th \in ThrottleInputs, al \in AlphaInputs : CallStep(th, al, "any")
    /\ calls' = calls + 1
    /\ UNCHANGED <<estimator, clock, arrays, inputs, index, saved, vfigs>>

AnyReset ==
    /\ vpc = "any"
    /\ CallReset
    /\ UNCHANGED <<estimator, vpc, clock, arrays, inputs, index, saved, vfigs, calls>>

SpecStep == InitAny /\ [][AnyStep \/ AnyReset]_vars

(***************************************************************************)
(* The update equations as the notebook documents them, on scalars:        *)
(* x = <<R, b>>, P = <<p11, p12, p21, p22>>, H = [h, 1].                   *)
(***************************************************************************)
DocPHt(P, h) == << QAdd(QMul(P[1], h), P[2]), QAdd(QMul(P[3], h), P[4]) >>

DocS(P, h, r) == QAdd(QAdd(QMul(h, DocPHt(P, h)[1]), DocPHt(P, h)[2]), r)

DocK(P, h, r) ==
    << QMul(DocPHt(P, h)[1], QInv(DocS(P, h, r))),
       QMul(DocPHt(P, h)[2], QInv(DocS(P, h, r))) >>

DocX(x, P, h, y, r) ==
    LET K == DocK(P, h, r)
        e == QSub(y, QAdd(QMul(h, x[1]), x[2]))
    IN  << QAdd(x[1], QMul(K[1], e)), QAdd(x[2], QMul(K[2], e)) >>

DocP(P, h, r) ==
    LET K == DocK(P, h, r)
        a11 == QSub(One, QMul(K[1], h))
        a12 == QNeg(K[1])
        a21 == QNeg(QMul(K[2], h))
        a22 == QSub(One, K[2])
    IN  << QAdd(QMul(a11, P[1]), QMul(a12, P[3])), QAdd(QMul(a11, P[2]), QMul(a12, P[4])),
           QAdd(QMul(a21, P[1]), QMul(a22, P[3])), QAdd(QMul(a21, P[2]), QMul(a22, P[4])) >>

QAbs(a) == <<Abs(a[1]), a[2]>>

(***************************************************************************)
(* Positions of the program and the history slots written so far.          *)
(***************************************************************************)
BeforeSaveP == {"c5_H", "c5_K1", "c5_K2", "c5_K3", "c5_K4", "c5_K5", "c5_K6",
                "c5_x1", "c5_x2", "c5_x3", "c5_x4", "c5_P1", "c5_P2", "c5_P3",
                "c5_Ph", "LinAlgError"}

AfterLoop == {"c5_print", "IndexError", "c6_plot"}

\* Number of slots of P_hist (x_hist) that have been assigned.
NP ==
    IF P_hist = Unbound \/ pc \in {"c5_xh0", "c5_Ph0"} THEN 0
    ELSE IF pc \in BeforeSaveP THEN k + 1
    ELSE k + 2

NX ==
    IF x_hist = Unbound \/ pc \in {"c5_Phist", "c5_xh0"} THEN 0
    ELSE IF pc \in BeforeSaveP \cup {"c5_xh"} THEN k + 1
    ELSE k + 2

Meas(j) == <<At2(I, j, 0), At2(V, j, 0)>>

Noise == At2(R_k, 0, 0)

(***************************************************************************)
(* C1: from the x_k and P_k the cell initializes, after the five           *)
(* measurements the final estimate has slope near 5 (within 0.1) and       *)
(* offset near 0 (within 0.1) and agrees with the batch solution x_ls to   *)
(* two decimal places (within 0.01) in both components.                    *)
(***************************************************************************)
C1_FinalMatchesBatch ==
    pc \in AfterLoop =>
        /\ QLe(QAbs(QSub(At1(x_k, 0), Q(5, 1))), Q(1, 10))
        /\ QLe(QAbs(At1(x_k, 1)), Q(1, 10))
        /\ QLt(QAbs(QSub(At1(x_k, 0), At2(x_ls, 0, 0))), Q(1, 100))
        /\ QLt(QAbs(QSub(At1(x_k, 1), At2(x_ls, 1, 0))), Q(1, 100))

(***************************************************************************)
(* C2: the estimator's initial state is the documented prior: mean         *)
(* (R, b) = (4, 0), covariance diagonal (9.0, 0.2), off-diagonals zero.    *)
(***************************************************************************)
C2_DocumentedPrior ==
    pc = "c5_R" =>
        /\ x_k.a = <<Q(4, 1), Zero>>
        /\ P_k.a = <<Q(9, 1), Zero, Zero, Q(2, 10)>>

(***************************************************************************)
(* C3: every covariance the loop has recorded (P_hist[0] and P_hist after  *)
(* each update) is symmetric and non-negative-definite.                    *)
(***************************************************************************)
C3_CovSymNonNegDef ==
    \A j \in 0..(NP - 1) : ValidCov(Get(P_hist, j))

(***************************************************************************)
(* C4: for a valid input of one update (P symmetric non-negative-definite, *)
(* H = [current, 1], r > 0) the updated covariance is symmetric and its    *)
(* trace is at most the trace of P.  P_hist[k] is the covariance the       *)
(* update of iteration k started from.                                     *)
(***************************************************************************)
C4_SymTraceNonIncreasing ==
    (pc = "c5_Ph" /\ ValidCov(Get(P_hist, k)) /\ QLt(Zero, Noise)) =>
        /\ Symmetric(P_k)
        /\ QLe(Trace(P_k), Trace(Get(P_hist, k)))

C4_Witness ==
    /\ pc = "c5_Ph"
    /\ ValidCov(Get(P_hist, k))
    /\ QLt(Zero, Noise)
    /\ At2(Get(P_hist, k), 0, 1) # Zero
    /\ At2(I, k, 0) # Zero
    /\ Symmetric(P_k)
    /\ QLt(Trace(P_k), Trace(Get(P_hist, k)))

(***************************************************************************)
(* C5: one loop iteration computes the documented update: S = H P H^T + r, *)
(* K = P H^T / S, x' = x + K (y - H x), P' = (I - K H) P, where K and P'   *)
(* are computed from the pre-update P and the innovation from the          *)
(* pre-update x.                                                           *)
(***************************************************************************)
C5_DocumentedUpdate ==
    [][ /\ (pc = "c5_K3" => At2(stk'[1], 0, 0) = DocS(P_k.a, Meas(k)[1], Noise))
        /\ (pc = "c5_K6" => K_k'.a = DocK(P_k.a, Meas(k)[1], Noise))
        /\ (pc = "c5_x4" =>
                x_k'.a = DocX(x_k.a, P_k.a, Meas(k)[1], Meas(k)[2], Noise))
        /\ (pc = "c5_P3" => P_k'.a = DocP(P_k.a, Meas(k)[1], Noise)) ]_vars

C5_Witness ==
    /\ pc = "c5_Ph"
    /\ k = 4
    /\ K_k.a = DocK(Get(P_hist, k).a, Meas(k)[1], Noise)
    /\ x_k.a = DocX(Get(x_hist, k).a, Get(P_hist, k).a, Meas(k)[1], Meas(k)[2], Noise)
    /\ P_k.a = DocP(Get(P_hist, k).a, Meas(k)[1], Noise)
    /\ x_k # Get(x_hist, k)
    /\ P_k # Get(P_hist, k)

(***************************************************************************)
(* C6: at every update of the loop the innovation covariance S that inv    *)
(* is applied to is strictly positive; the singular case is never reached. *)
(***************************************************************************)
C6_InnovationCovPositive ==
    /\ pc # "LinAlgError"
    /\ (pc = "c5_K4" => QLt(Zero, At2(stk[1], 0, 0)))

C6_Witness ==
    /\ pc = "c5_K4"
    /\ k = 4
    /\ QLt(Zero, At2(stk[1], 0, 0))
    /\ QLt(Zero, Noise)

(***************************************************************************)
(* C7: x_k and P_k are each initialized once and then changed only by the  *)
(* update of the loop, once per measurement: the measurements are read in  *)
(* index order, each once, and the loop exits after exactly five updates.  *)
(***************************************************************************)
UpTo(n) == [i \in 1..n |-> i - 1]

C7_OncePerMeasurement ==
    [][ /\ (x_k' # x_k =>
               \/ pc = "c5_x0" /\ x_k = Unbound
               \/ pc = "c5_x4" /\ k \in 0..4 /\ consumed = UpTo(k + 1))
        /\ (P_k' # P_k =>
               \/ pc = "c5_P0" /\ P_k = Unbound
               \/ pc = "c5_P3" /\ k \in 0..4 /\ consumed = UpTo(k + 1))
        /\ (consumed' # consumed =>
               /\ Len(consumed) < 5
               /\ consumed' = Append(consumed, Len(consumed))
               /\ x_k # Unbound /\ P_k # Unbound)
        /\ (pc' \in AfterLoop => consumed' = UpTo(5) /\ k' = 4)
        /\ (pc' = "c5_for" /\ k' >= 0 =>
               /\ x_k' = Get(x_hist', k' + 1)
               /\ P_k' = Get(P_hist', k' + 1)
               /\ consumed' = UpTo(k' + 1)) ]_vars

C7_Witness ==
    /\ pc = "c5_print"
    /\ consumed = UpTo(5)
    /\ it = 5
    /\ k = 4

(***************************************************************************)
(* C8: x_hist[0], P_hist[0] hold the initial prior; slot k+1 holds the     *)
(* update applied to slot k with measurement k, nothing else being done to *)
(* it; a slot once written is never modified.                              *)
(***************************************************************************)
C8Recurrence ==
    /\ (NX >= 1 => Get(x_hist, 0) = X0)
    /\ (NP >= 1 => Get(P_hist, 0) = P0)
    /\ \A j \in 0..4 :
          /\ (NX >= j + 2 =>
                 Get(x_hist, j + 1).a =
                     DocX(Get(x_hist, j).a, Get(P_hist, j).a, Meas(j)[1], Meas(j)[2], Noise))
          /\ (NP >= j + 2 =>
                 Get(P_hist, j + 1).a = DocP(Get(P_hist, j).a, Meas(j)[1], Noise))

C8Frozen ==
    \A j \in 0..5 :
        /\ (j < NX => Get(x_hist', j) = Get(x_hist, j))
        /\ (j < NP => Get(P_hist', j) = Get(P_hist, j))

C8_HistoryChain == []C8Recurrence /\ [][C8Frozen]_vars

C8_Witness ==
    /\ NX = 6
    /\ NP = 6
    /\ C8Recurrence
    /\ Get(x_hist, 5) = x_k
    /\ Get(P_hist, 5) = P_k

(***************************************************************************)
(* C9: the same measurement (same H, y, r) applied twice in sequence to a  *)
(* valid P reduces the trace both times, the second time by no more than   *)
(* the first: trace(P) - trace(P') >= trace(P') - trace(P'') >= 0.         *)
(***************************************************************************)
TraceDrop(j) == QSub(Trace(Get(P_hist, j)), Trace(Get(P_hist, j + 1)))

C9_DiminishingReturns ==
    \A j \in 0..(NP - 3) :
        (ValidCov(Get(P_hist, j)) /\ Meas(j) = Meas(j + 1)) =>
            /\ QLe(Zero, TraceDrop(j + 1))
            /\ QLe(TraceDrop(j + 1), TraceDrop(j))

C9_Witness ==
    /\ NP >= 3
    /\ ValidCov(Get(P_hist, 0))
    /\ Meas(0) = Meas(1)
    /\ QLt(Zero, TraceDrop(1))
    /\ QLt(TraceDrop(1), TraceDrop(0))

(***************************************************************************)
(* C10: along the run of the loop the trace of the recorded covariance     *)
(* never grows: trace(P_hist[k+1]) <= trace(P_hist[k]) for k in 0..4.      *)
(***************************************************************************)
C10_TraceShrinks ==
    \A j \in 0..(NP - 2) : QLe(Trace(Get(P_hist, j + 1)), Trace(Get(P_hist, j)))

C10_Witness ==
    /\ NP = 6
    /\ P_hist.shape = <<6, 2, 2>>
    /\ \A j \in 0..4 : QLt(Trace(Get(P_hist, j + 1)), Trace(Get(P_hist, j)))

(***************************************************************************)
(* C11: the recursive update is deterministic and pure.  Every slot the    *)
(* loop writes is the documented function of the slot before it and of the *)
(* measurement (H, y, r) alone, whatever else the kernel holds, so two     *)
(* runs from the same (x, P) fed the same measurements agree at every      *)
(* step; and a step of the loop changes neither the data, the noise, the   *)
(* batch results, the output nor a slot that was already written.          *)
(***************************************************************************)
BeforeAlloc == {"c5_num", "c5_xhist", "c5_Phist", "c5_xh0"}

NXit ==
    IF pc \in BeforeAlloc THEN 0
    ELSE IF pc \in BeforeSaveP \cup {"c5_xh"} THEN it
    ELSE it + 1

NPit ==
    IF pc \in BeforeAlloc \cup {"c5_Ph0"} THEN 0
    ELSE IF pc \in BeforeSaveP THEN it
    ELSE it + 1

C11Function ==
    \A j \in 0..(NumRep - 1) :
        /\ (NXit >= j + 2 =>
               Get(x_hist, j + 1).a =
                   DocX(Get(x_hist, j).a, Get(P_hist, j).a, Meas(j)[1], Meas(j)[2], Noise))
        /\ (NPit >= j + 2 =>
               Get(P_hist, j + 1).a = DocP(Get(P_hist, j).a, Meas(j)[1], Noise))

C11Frame ==
    /\ UNCHANGED <<I, V, R_k, H, x_ls, I_line, V_line, out, figs, veh>>
    /\ \A j \in 0..NumRep :
          /\ (j < NXit => Get(x_hist', j) = Get(x_hist, j))
          /\ (j < NPit => Get(P_hist', j) = Get(P_hist, j))

RampDone == {"v4_plot", "v5_stack", "v5_save", "v6_setup"}

\* The throttle loop has run to its end.
AfterThrottle == {"v4_for", "v6_for", "v6_plot", "NameError"} \cup RampDone

(***************************************************************************)
(* C12: in the ramp run the throttle, after the hold at 0.5, is reduced to *)
(* 0: for sample indices above 3*t_len/4 it never increases from one       *)
(* sample to the next, and it is 0 at the last sample.                     *)
(***************************************************************************)
C12_ThrottleReducedToZero ==
    vpc \in AfterThrottle =>
        /\ \A n \in 0..(t_len - 2) :
               4 * n > 3 * t_len => throttle_data[n + 2] <= throttle_data[n + 1]
        /\ throttle_data[t_len] = 0

(***************************************************************************)
(* C13: in the ramp run the throttle is 0.2 at sample 0, rises strictly    *)
(* and on a straight line to exactly 0.5 at sample t_len/4, and is exactly *)
(* 0.5 at every sample from there up to 3*t_len/4; the last value of the   *)
(* rise is the value of the hold, so there is no jump between the two.     *)
(***************************************************************************)
C13_RampThenHold ==
    vpc \in AfterThrottle =>
        /\ throttle_data[1] = Dec(2, 1)
        /\ \A n \in 0..(t_len \div 4) :
               (throttle_data[n + 1] - Dec(2, 1)) * (t_len \div 4) = Dec(3, 1) * n
        /\ \A n \in 0..((t_len \div 4) - 1) : throttle_data[n + 1] < throttle_data[n + 2]
        /\ throttle_data[(t_len \div 4) + 1] = Dec(5, 1)
        /\ \A n \in (t_len \div 4)..((3 * t_len) \div 4) : throttle_data[n + 1] = Dec(5, 1)

C13_Witness ==
    /\ vpc = "v4_for"
    /\ t_len = 2000
    /\ throttle_data[1] = Dec(2, 1)
    /\ throttle_data[251] = Dec(35, 2)
    /\ throttle_data[501] = Dec(5, 1)
    /\ throttle_data[1501] = Dec(5, 1)

(***************************************************************************)
(* C14: after any sequence of step calls with any throttle and alpha,      *)
(* reset() restores x = 0, v = 5, a = 0, w_e = 100, w_e_dot = 0 and leaves *)
(* every model parameter and sample_time as they were; from then on the    *)
(* object is in the state of a new Vehicle given the same inputs.          *)
(***************************************************************************)
Parameters ==
    DOMAIN Vehicle \ {"x", "v", "a", "w_e", "w_e_dot"}

C14Twin == vpc = "any" => model = twin

C14Reset ==
    twin' = Vehicle =>
        /\ model'.x = 0
        /\ model'.v = Dec(5, 0)
        /\ model'.a = 0
        /\ model'.w_e = Dec(100, 0)
        /\ model'.w_e_dot = 0
        /\ \A f \in Parameters : model'[f] = model[f]

C14_ResetRestores == []C14Twin /\ [][C14Reset]_vars

\* MaxCalls calls were made, a reset among them, and one call since.
C14_Witness ==
    /\ vpc = "any"
    /\ calls = MaxCalls
    /\ model.x = FMul(Dec(5, 0), Dec(1, 2))
    /\ model.a # 0
    /\ model = twin

(***************************************************************************)
(* C15: step is one explicit Euler step in the documented order.  It adds  *)
(* sample_time times the derivatives stored before the call (x by the old  *)
(* v, v by the old a, w_e by the old w_e_dot) and then computes a and      *)
(* w_e_dot from the forces at the advanced v and w_e.                      *)
(***************************************************************************)
C15Step ==
    calls' = calls + 1 =>
        /\ model'.x = model.x + FMul(model.v, model.sample_time)
        /\ model'.v = model.v + FMul(model.a, model.sample_time)
        /\ model'.w_e = model.w_e + FMul(model.w_e_dot, model.sample_time)
        /\ model'.a = FDiv(TireForce(model') - LoadForce(model', args'[2]), model.m)
        /\ model'.w_e_dot =
               FDiv(EngineTorque(model', args'[1])
                        - FMul(FMul(model.GR, model.r_e), LoadForce(model', args'[2])),
                    model.J_e)

C15_EulerOrder == [][C15Step]_vars

C15_Witness ==
    /\ vpc = "any"
    /\ calls = 2
    /\ args = <<Dec(5, 1), Atan2(3, 60)>>
    /\ model.v # Dec(5, 0)
    /\ model.w_e # Dec(100, 0)
    /\ model.a = FDiv(TireForce(model) - LoadForce(model, args[2]), model.m)
    /\ model.a # FDiv(TireForce(Vehicle) - LoadForce(Vehicle, args[2]), model.m)

(***************************************************************************)
(* C16: in every step the tire force follows the documented slip law,      *)
(* with s = (GR*w_e*r_e - v)/v: F_x = c*s when |s| < 1 and F_x = F_max     *)
(* otherwise; and the load force is c_a*v^2 + c_r1*v + m*g*sin(alpha).     *)
(* The two forces show in the a and the w_e_dot the step stores.           *)
(***************************************************************************)
DocSlip(self) ==
    FDiv(FMul(FMul(self.GR, self.w_e), self.r_e) - self.v, self.v)

DocTireForce(self) ==
    IF Abs(DocSlip(self)) < Dec(1, 0) THEN FMul(self.c, DocSlip(self)) ELSE self.F_max

DocLoadForce(self, al) ==
    FMul(self.c_a, FMul(self.v, self.v)) + FMul(self.c_r1, self.v)
        + FMul(FMul(self.m, self.g), Sin(al))

C16Step ==
    calls' = calls + 1 =>
        /\ model'.a = FDiv(DocTireForce(model') - DocLoadForce(model', args'[2]), model'.m)
        /\ model'.w_e_dot =
               FDiv(EngineTorque(model', args'[1])
                        - FMul(FMul(model'.GR, model'.r_e), DocLoadForce(model', args'[2])),
                    model'.J_e)

C17Recorded ==
    vpc \in RampDone =>
        /\ steps = t_len
        /\ x_data[1] = 0
        /\ v_data[1] = Dec(5, 0)
        /\ \A n \in 1..(t_len - 1) :
               x_data[n + 1] = x_data[n] + FMul(v_data[n], model.sample_time)
        /\ model.x = x_data[t_len] + FMul(v_data[t_len], model.sample_time)
        /\ \A n \in 1..t_len : x_data[n] < model.x

C17Rows ==
    vpc = "v6_setup" =>
        /\ Len(xdata_txt) = 2000
        /\ \A n \in 0..1999 : xdata_txt[n + 1] = <<n * Dec(1, 2), x_data[n + 1]>>
        /\ xdata_txt[1] = <<0, 0>>

C17_RecordedBeforeStep == C17Recorded /\ C17Rows

C17_Witness ==
    /\ vpc = "v6_setup"
    /\ Len(xdata_txt) = 2000
    /\ xdata_txt[1] = <<0, 0>>
    /\ xdata_txt[2] = <<Dec(1, 2), FMul(Dec(5, 0), Dec(1, 2))>>
    /\ xdata_txt[2000] = <<Dec(1999, 2), x_data[2000]>>
    /\ x_data[2000] < model.x

(***************************************************************************)
(* C18: in the ramp run the incline passed to a step is a function of the  *)
(* position before that step only: atan2(3, 60) below 60 m, atan2(9, 90)   *)
(* from 60 m to below 150 m, and 0 from 150 m on.                          *)
(***************************************************************************)
RampAngle(x) ==
    IF x < Dec(60, 0) THEN Atan2(3, 60)
    ELSE IF x < Dec(150, 0) THEN Atan2(9, 90)
    ELSE 0

C18_InclineByPosition ==
    vpc \in RampDone =>
        /\ \A n \in 1..t_len : alpha_data[n] = RampAngle(x_data[n])
        /\ args = <<throttle_data[t_len], alpha_data[t_len]>>

\* The ramp loop is over; all three parts of the road were driven.
C18_Witness ==
    /\ vpc = "v4_plot"
    /\ steps = t_len
    /\ alpha_data[1] = Atan2(3, 60)
    /\ x_data[1000] >= Dec(60, 0)
    /\ alpha_data[1000] = Atan2(9, 90)
    /\ x_data[t_len] >= Dec(150, 0)
    /\ alpha_data[t_len] = 0
    /\ args[2] = 0

(***************************************************************************)
(* C19: in the ramp run, from the reset on, the velocity is strictly       *)
(* positive after every one of the 2000 calls of step, the division by v   *)
(* in step never fails, and the recorded position never decreases.         *)
(***************************************************************************)
C19_ForwardMotion ==
    /\ vpc # "ZeroDivisionError"
    /\ (vpc \in RampDone =>
           /\ steps = 2000
           /\ model.v > 0
           /\ \A n \in 1..t_len : v_data[n] > 0
           /\ \A n \in 1..(t_len - 1) : x_data[n] <= x_data[n + 1])

C19_Witness ==
    /\ vpc = "v4_plot"
    /\ steps = 2000
    /\ model.v > Dec(5, 0)
    /\ \A n \in 1..1999 : x_data[n] < x_data[n + 1]

(***************************************************************************)
(* C20: in the ramp run the vehicle reaches 150 m, the end of the ramp, at *)
(* about 15 s, the sample index 3*t_len/4 where the hold of the throttle   *)
(* ends: the first recorded position of at least 150 m is within 50        *)
(* samples (0.5 s) of that index.                                          *)
(***************************************************************************)
C20_CrossesAtHoldEnd ==
    vpc \in RampDone =>
        /\ x_data[(3 * t_len) \div 4 - 50 + 1] < Dec(150, 0)
        /\ x_data[(3 * t_len) \div 4 + 50 + 1] >= Dec(150, 0)

C20_Witness ==
    /\ vpc = "v4_plot"
    /\ t_len = 2000
    /\ x_data[1501] < Dec(150, 0)
    /\ x_data[1521] >= Dec(150, 0)
    /\ t_data[1501] = Dec(15, 0)

(***************************************************************************)
(* C21: the parameter estimate x_k is a 2x1 column vector from its         *)
(* initialization on and after every update, and the run does not end in   *)
(* the IndexError of the final reads x_k[0, 0] and x_k[1, 0]: once the     *)
(* prints are done, the header line and both parameters have been printed. *)
(***************************************************************************)
C21_ColumnVectorPrinted ==
    /\ (x_k # Unbound => x_k.shape = <<2, 1>>)
    /\ pc # "IndexError"
    /\ (pc = "c6_plot" =>
           /\ Len(out) >= 3
           /\ out[Len(out) - 1].q = At2(x_k, 0, 0)
           /\ out[Len(out)].q = At2(x_k, 1, 0))

(***************************************************************************)
(* C22: the inputs of step act with a delay.  The x, v and w_e a call      *)
(* produces are those of the state before the call whatever throttle and   *)
(* alpha are passed; the inputs show in the stored a and w_e_dot only.  A  *)
(* different alpha first shows in v, and a different throttle in w_e, in   *)
(* the next call; the x of the next call is still the same, and a          *)
(* different alpha shows in x in the call after that.  No call changes a   *)
(* model parameter or sample_time.                                         *)
(***************************************************************************)
C22Call ==
    calls' = calls + 1 =>
        /\ \A th \in ThrottleInputs, al \in AlphaInputs :
               \A m \in {step(model, th, al)} :
                   model'.x = m.x /\ model'.v = m.v /\ model'.w_e = m.w_e
        /\ \A f \in Parameters : model'[f] = model[f]

\* The object after a call with th and al (m), after one more call (n), and
\* its position after a third (x3); the later calls are step(0, 0).
C22Outcomes ==
    UNION {UNION {{[th |-> th, al |-> al, m |-> m, n |-> n, x3 |-> step(n, 0, 0).x] :
                       n \in {step(m, 0, 0)}} :
                  m \in {step(model, th, al)}} :
           th \in ThrottleInputs, al \in AlphaInputs}

C22Later ==
    vpc = "any" =>
        \A p, q \in C22Outcomes :
            /\ p.m.x = q.m.x /\ p.m.v = q.m.v /\ p.m.w_e = q.m.w_e
            /\ (p.al # q.al => p.m.a # q.m.a)
            /\ (p.th # q.th /\ p.al = q.al =>
                   p.m.a = q.m.a /\ p.m.w_e_dot # q.m.w_e_dot)
            /\ p.n.x = q.n.x
            /\ (p.al # q.al => p.n.v # q.n.v)
            /\ (p.th # q.th /\ p.al = q.al => p.n.v = q.n.v /\ p.n.w_e # q.n.w_e)
            /\ (p.al # q.al => p.x3 # q.x3)

C22_InputsDelayed == []C22Later /\ [][C22Call]_vars

\* Three calls were made; a fourth with the one or the other pair of inputs
\* gives the same x, v, w_e and different a, w_e_dot, and a fifth then gives
\* different v and w_e.
C22_Witness ==
    /\ vpc = "any"
    /\ calls = 3
    /\ model.a # 0
    /\ model.x > FMul(Dec(5, 0), Dec(1, 2))
    /\ LET m1 == step(model, 0, -Atan2(9, 90))
           m2 == step(model, Dec(5, 1), Atan2(3, 60))
       IN  /\ m1.x = m2.x /\ m1.v = m2.v /\ m1.w_e = m2.w_e
           /\ m1.v = model.v + FMul(model.a, model.sample_time)
           /\ m1.a # m2.a
           /\ m1.w_e_dot # m2.w_e_dot
           /\ step(m1, 0, 0).v # step(m2, 0, 0).v
           /\ step(m1, 0, 0).w_e # step(m2, 0, 0).w_e

(***************************************************************************)
(* C23: in exact arithmetic the estimate and the covariance after the      *)
(* fifth update are the same for every order of the five (current,         *)
(* voltage) pairs.  They are the one solution of equations whose           *)
(* coefficients are sums over the measurements:                            *)
(*   (1 + P_0 A) P_5 = P_0  and  (1 + P_0 A) x_5 = x_0 + P_0 b,            *)
(* with A the sum of H_k^T H_k / r and b the sum of H_k^T V_k / r.         *)
(***************************************************************************)
InfoA ==
    LET n  == Len(IData.a)
        r  == QInv(At2(R0, 0, 0))
        s2 == QMul(SumTo([j \in 1..n |-> QMul(IData.a[j], IData.a[j])], n), r)
        s1 == QMul(SumTo(IData.a, n), r)
        s0 == QMul(Q(n, 1), r)
    IN  Arr(<<2, 2>>, <<s2, s1, s1, s0>>)

InfoB ==
    LET n == Len(IData.a)
        r == QInv(At2(R0, 0, 0))
    IN  Arr(<<2>>, << QMul(SumTo([j \in 1..n |-> QMul(IData.a[j], VData.a[j])], n), r),
                      QMul(SumTo(VData.a, n), r) >>)

InfoM == Add(Eye(2, 2), Dot(P0, InfoA))

C23_OrderIndependent ==
    pc = "c5_print" =>
        /\ ~Singular(InfoM)
        /\ Dot(InfoM, P_k) = P0
        /\ Dot(InfoM, x_k) = Add(X0, Dot(P0, InfoB))
        /\ Get(x_hist, Len(IData.a)) = x_k
        /\ Get(P_hist, Len(IData.a)) = P_k

\* The loop is over for the measurements in reverse order.
C23_Witness ==
    /\ pc = "c5_print"
    /\ At2(I, 0, 0) = IData.a[Len(IData.a)]
    /\ At2(V, 0, 0) = VData.a[Len(VData.a)]
    /\ At2(I, Len(IData.a) - 1, 0) = IData.a[1]
    /\ Len(consumed) = Len(IData.a)
    /\ ~Singular(InfoM)
    /\ x_k = Dot(Inv(InfoM), Add(X0, Dot(P0, InfoB)))
    /\ P_k = Dot(Inv(InfoM), P0)

====
